---- MODULE Spec2Model ----
(***************************************************************************)
(* Model of Gaffer.py: the manager roster extraction (fetch_manager_data), *)
(* the per-assignment statistics aggregation (fetch_team_stats), the merge *)
(* and clean steps of the "Load Data" handler, the display clean-up and    *)
(* the range filter, together with the Streamlit session state they use.   *)
(*                                                                         *)
(* Data representation                                                     *)
(*   - a DataFrame is a sequence of records (row order is kept);           *)
(*   - a manager string is a sequence of character codes (1 = "a",         *)
(*     2 = "b"), so that substring containment and the empty string are    *)
(*     computed, and the missing value NaN is the sequence <<-1>>;         *)
(*   - a number is an exact fraction <<num, den>> with den > 0, and the    *)
(*     numeric NaN is <<0, 0>>; metric values are counted in hundredths.   *)
(***************************************************************************)
EXTENDS Integers, Sequences, FiniteSets, TLC

VARIABLES
    api_matches,    \* sb.matches: (competition id, season id) -> [ok, rows]
    api_stats,      \* sb.team_match_stats: match id -> [ok, level of every team's row]
    data_loaded,    \* st.session_state.data_loaded
    manager_data,   \* st.session_state.manager_data
    matches,        \* st.session_state.matches
    team_stats,     \* st.session_state.team_stats
    cleaned_data,   \* st.session_state.cleaned_data
    min_matches,    \* st.session_state.min_matches
    ranges,         \* st.session_state.<metric>_range, by metric label
    displayed,      \* the table shown under "Merged Data ..."
    filtered,       \* the table shown under "Selected Managers"
    status,         \* what the last script run reported
    arg,            \* argument of the function under test (function-level specifications)
    ret             \* its result

vars == <<api_matches, api_stats, data_loaded, manager_data, matches, team_stats,
          cleaned_data, min_matches, ranges, displayed, filtered, status, arg, ret>>

session == <<data_loaded, manager_data, matches, team_stats, cleaned_data>>

(***************************************************************************)
(* Bounds                                                                  *)
(***************************************************************************)
MaxMatches == 2     \* number of matches the data source knows
MaxMin == 3         \* largest "Minimum Matches Managed" the user picks

(***************************************************************************)
(* Generic helpers                                                         *)
(***************************************************************************)
Range(s) == {s[i] : i \in 1..Len(s)}

RECURSIVE Concat(_)
Concat(ss) == IF ss = <<>> THEN <<>> ELSE Head(ss) \o Concat(Tail(ss))

MapRows(s, f(_)) == [i \in 1..Len(s) |-> f(s[i])]

RECURSIVE GCD(_, _)
GCD(a, b) == IF b = 0 THEN a ELSE GCD(b, a % b)

\* The missing value of an object column, and of a numeric column.
NaN == <<-1>>
NaNNum == <<0, 0>>

Num(n) == <<n, 1>>
Frac(n, d) == LET g == GCD(IF n < 0 THEN -n ELSE n, d) IN <<n \div g, d \div g>>
IsNum(x) == x[2] # 0

\* x <= y on numbers; any comparison with NaN is False.
Leq(x, y) == IsNum(x) /\ IsNum(y) /\ x[1] * y[2] <= y[1] * x[2]

(***************************************************************************)
(* Static tables                                                           *)
(***************************************************************************)
\* The first two entries of COMPETITIONS and of SEASONS, in dict order.
CompIds == <<38, 47>>
COMPETITIONS == [c \in Range(CompIds) |-> IF c = 38 THEN "Ekstraklasa" ELSE "Bundesliga"]

SeasonIds == <<317, 282>>
SEASONS == [s \in Range(SeasonIds) |-> IF s = 317 THEN "2024/2025" ELSE "2024"]

MetricKeys == <<"team_match_op_xg", "team_match_sp_xg", "team_match_ppda",
                "team_match_counter_attacking_shots", "team_match_op_shot_distance",
                "team_match_op_shot_distance_conceded", "team_match_fhalf_pressures_ratio",
                "team_match_possession", "team_match_np_xg_conceded">>

MetricLabels == <<"Open Play xG", "Set Piece xG", "PPDA", "Counter Attacking Shots",
                  "Open Play Shot Distance", "Open Play Shot Distance Conceded",
                  "Pressures in opposition half Ratio", "Possession Ratio", "xG Conceded">>

METRICS == [k \in Range(MetricKeys) |->
              MetricLabels[CHOOSE i \in 1..Len(MetricKeys) : MetricKeys[i] = k]]

Labels == Range(MetricLabels)
LabelKey == [l \in Labels |-> CHOOSE k \in Range(MetricKeys) : METRICS[k] = l]
KeyOf(label) == LabelKey[label]

(***************************************************************************)
(* Manager Extractor: fetch_manager_data                                   *)
(***************************************************************************)
\* DataFrame.drop_duplicates(): the first occurrence of every row is kept.
KeepFirst(init, last) == IF last \in Range(init) THEN init ELSE Append(init, last)

RECURSIVE drop_duplicates(_)
drop_duplicates(s) ==
    IF s = <<>> THEN <<>>
    ELSE KeepFirst(drop_duplicates(SubSeq(s, 1, Len(s) - 1)), s[Len(s)])

\* The (competition, season) pairs in the order of the two nested loops.
RECURSIVE SeasonLoop(_, _, _)
SeasonLoop(c, seasons, i) ==
    IF i > Len(SeasonIds) THEN <<>>
    ELSE (IF SeasonIds[i] \in seasons THEN <<<<c, SeasonIds[i]>>>> ELSE <<>>)
         \o SeasonLoop(c, seasons, i + 1)

RECURSIVE CompLoop(_, _, _)
CompLoop(comps, seasons, i) ==
    IF i > Len(CompIds) THEN <<>>
    ELSE (IF CompIds[i] \in comps THEN SeasonLoop(CompIds[i], seasons, 1) ELSE <<>>)
         \o CompLoop(comps, seasons, i + 1)

\* matches["competition"] = comp_name; matches["season"] = season_name
TagMatch(m, pair) ==
    [match_id |-> m.match_id,
     home_team |-> m.home_team, home_managers |-> m.home_managers,
     away_team |-> m.away_team, away_managers |-> m.away_managers,
     competition |-> COMPETITIONS[pair[1]], season |-> SEASONS[pair[2]]]

home_managers(m) ==
    [team_name |-> m.home_team, manager |-> m.home_managers,
     competition |-> m.competition, season |-> m.season]

away_managers(m) ==
    [team_name |-> m.away_team, manager |-> m.away_managers,
     competition |-> m.competition, season |-> m.season]

\* A variant that concatenates the two sides and keeps every row.
PairRoster_keep_all(ms) == MapRows(ms, home_managers) \o MapRows(ms, away_managers)

\* The roster of one competition/season pair (line 84).
PairRoster(ms) == drop_duplicates(MapRows(ms, home_managers) \o MapRows(ms, away_managers))

\* One pass of the try block for every pair: the lists all_manager_data and
\* all_matches and the warnings issued. A request that raises leaves both
\* lists alone; a response without rows is appended to all_matches and then
\* raises KeyError at the column selection of line 77.
FetchPair(acc, p, ok, ms) ==
    IF ~ok
    THEN [acc EXCEPT !.warnings = Append(@, p)]
    ELSE IF ms = <<>>
    THEN [acc EXCEPT !.all_matches = Append(@, ms), !.warnings = Append(@, p)]
    ELSE [acc EXCEPT !.all_matches = Append(@, ms),
                     !.all_manager_data = Append(@, PairRoster(ms))]

RECURSIVE FetchLoop(_, _, _)
FetchLoop(api, pairs, acc) ==
    IF pairs = <<>> THEN acc
    ELSE FetchLoop(api, Tail(pairs),
                   FetchPair(acc, Head(pairs), api[Head(pairs)].ok,
                             MapRows(api[Head(pairs)].rows, LAMBDA m : TagMatch(m, Head(pairs)))))

\* pd.concat of an empty list raises ValueError (line 88).
FetchReturn(r) ==
    IF r.all_manager_data = <<>>
    THEN [raised |-> "ValueError", manager_data |-> <<>>, matches |-> <<>>,
          warnings |-> r.warnings]
    ELSE [raised |-> "", manager_data |-> Concat(r.all_manager_data),
          matches |-> Concat(r.all_matches), warnings |-> r.warnings]

fetch_manager_data(api, comps, seasons) ==
    FetchReturn(FetchLoop(api, CompLoop(comps, seasons, 1),
                          [all_manager_data |-> <<>>, all_matches |-> <<>>, warnings |-> <<>>]))

(***************************************************************************)
(* Stats Aggregator: fetch_team_stats                                      *)
(***************************************************************************)
\* A variant that compares the two strings for equality.
str_contains_equal(hay, pat) == hay # NaN /\ hay = pat

\* Series.str.contains(pat, na=False) for a pattern without metacharacters:
\* substring containment, False on a missing value.
str_contains(hay, pat) ==
    /\ hay # NaN
    /\ \E i \in 0..(Len(hay) - Len(pat)) : SubSeq(hay, i + 1, i + Len(pat)) = pat

\* The rows of matches selected at lines 98-101.
team_matches(ms, team_name, manager_name) ==
    SelectSeq(ms, LAMBDA m :
        \/ (m.home_team = team_name /\ str_contains(m.home_managers, manager_name))
        \/ (m.away_team = team_name /\ str_contains(m.away_managers, manager_name)))

\* team_matches["match_id"].unique(): first occurrences, in order.
unique_ids(tm) == drop_duplicates(MapRows(tm, LAMBDA m : m.match_id))

\* The statistics row the data source holds at level k: k units of every metric.
MetricUnit ==
    [k \in Range(MetricKeys) |->
        CASE k = "team_match_op_xg" -> 100
          [] k = "team_match_sp_xg" -> 20
          [] k = "team_match_ppda" -> 500
          [] k = "team_match_counter_attacking_shots" -> 100
          [] k = "team_match_op_shot_distance" -> 1000
          [] k = "team_match_op_shot_distance_conceded" -> 1000
          [] k = "team_match_fhalf_pressures_ratio" -> 30
          [] k = "team_match_possession" -> 30
          [] OTHER -> 100]

StatRowOf(level) == [k \in Range(MetricKeys) |-> level * MetricUnit[k]]

\* The inner loop (lines 103-114): the rows appended to data. A fetch that
\* raises is passed over, and so is a response without a row of the team.
\* A variant that keeps the rows of both teams of the match.
team_match_any_team(resp, team_name) ==
    IF ~resp.ok THEN <<>>
    ELSE LET row(t) == IF resp.level[t] = 0 THEN <<>> ELSE <<StatRowOf(resp.level[t])>>
         IN row("T1") \o row("T2")

team_match(resp, team_name) ==
    IF ~resp.ok THEN <<>>
    ELSE IF resp.level[team_name] = 0 THEN <<>>
    ELSE <<StatRowOf(resp.level[team_name])>>

RECURSIVE collect(_, _, _)
collect(stats, ids, team_name) ==
    IF ids = <<>> THEN <<>>
    ELSE team_match(stats[Head(ids)], team_name) \o collect(stats, Tail(ids), team_name)

RECURSIVE SumOf(_, _)
SumOf(rows, k) == IF rows = <<>> THEN 0 ELSE Head(rows)[k] + SumOf(Tail(rows), k)

\* data.mean(numeric_only=True) over the collected rows.
mean(rows) == [k \in Range(MetricKeys) |-> Frac(SumOf(rows, k), Len(rows))]

\* len(team_matches), line 123.
games_managed(tm) == Num(Len(tm))

\* The body of the outer loop for one roster row: the list of rows appended
\* to team_stats (none when nothing was collected).
StatsRow(row, tm, data) ==
    IF data = <<>> THEN <<>>
    ELSE <<[manager |-> row.manager, team_name |-> row.team_name,
            competition |-> row.competition, season |-> row.season,
            games_managed |-> games_managed(tm), stats |-> mean(data)]>>

Collected(stats, row, tm) == StatsRow(row, tm, collect(stats, unique_ids(tm), row.team_name))

avg_stats(stats, ms, row) == Collected(stats, row, team_matches(ms, row.team_name, row.manager))

\* str.contains with a missing value as pattern raises TypeError, which
\* fetch_team_stats does not catch.
fetch_team_stats(stats, ms, md) ==
    IF \E i \in 1..Len(md) : md[i].manager = NaN
    THEN [raised |-> "TypeError", team_stats |-> <<>>]
    ELSE [raised |-> "",
          team_stats |-> Concat(MapRows(md, LAMBDA row : avg_stats(stats, ms, row)))]

(***************************************************************************)
(* Data Merger: lines 168-172                                              *)
(***************************************************************************)
SameKey(l, r) ==
    /\ l.team_name = r.team_name /\ l.manager = r.manager
    /\ l.competition = r.competition /\ l.season = r.season

MergeRow(l, gm, st) ==
    [team_name |-> l.team_name, manager |-> l.manager, competition |-> l.competition,
     season |-> l.season, games_managed |-> gm, stats |-> st]

\* The rows a left row yields: one per matching right row, or one row of
\* missing values.
JoinHits(l, hits) ==
    IF hits = <<>>
    THEN <<MergeRow(l, NaNNum, [k \in Range(MetricKeys) |-> NaNNum])>>
    ELSE MapRows(hits, LAMBDA r : MergeRow(l, r.games_managed, r.stats))

LeftJoinRow(l, right) == JoinHits(l, SelectSeq(right, LAMBDA r : SameKey(l, r)))

\* pd.merge(manager_data, team_stats, on=[...], how="left"). A team_stats
\* built from an empty list has no columns, and the merge raises KeyError.
merged_data(md, ts) ==
    IF ts = <<>>
    THEN [raised |-> "KeyError", rows |-> <<>>]
    ELSE [raised |-> "", rows |-> Concat(MapRows(md, LAMBDA l : LeftJoinRow(l, ts)))]

\* Column selection and rename(columns=METRICS), lines 169-170.
rename(r) ==
    [team_name |-> r.team_name, manager |-> r.manager, games_managed |-> r.games_managed,
     competition |-> r.competition, season |-> r.season,
     metrics |-> [l \in Labels |-> r.stats[KeyOf(l)]]]

\* cleaned_data[cleaned_data["games_managed"] >= min_matches], line 172.
games_cut(rows, minimum) == SelectSeq(rows, LAMBDA r : Leq(Num(minimum), r.games_managed))

(***************************************************************************)
(* Display clean-up (lines 184-193) and Filter Engine (lines 199-210)      *)
(***************************************************************************)
DisplayKey(r) == <<r.manager, r.team_name, r.competition>>

\* drop_duplicates(subset=["manager", "team_name", "competition"])
\* A variant that compares whole rows, season included.
KeepFirstKey_whole_row(init, last) == IF last \in Range(init) THEN init ELSE Append(init, last)

KeepFirstKey(init, last) ==
    IF \E i \in 1..Len(init) : DisplayKey(init[i]) = DisplayKey(last)
    THEN init ELSE Append(init, last)

RECURSIVE drop_duplicates_subset(_)
drop_duplicates_subset(s) ==
    IF s = <<>> THEN <<>>
    ELSE KeepFirstKey(drop_duplicates_subset(SubSeq(s, 1, Len(s) - 1)), s[Len(s)])

drop_season(r) ==
    [team_name |-> r.team_name, manager |-> r.manager, games_managed |-> r.games_managed,
     competition |-> r.competition, metrics |-> r.metrics]

display_data(cd) ==
    MapRows(drop_duplicates_subset(SelectSeq(cd, LAMBDA r : r.manager # NaN /\ r.manager # <<>>)),
            drop_season)

\* A variant that leaves the right endpoint out.
between_right_open(x, left, right) ==
    Leq(Num(left), x) /\ Leq(x, Num(right)) /\ ~Leq(Num(right), x)

\* Series.between(left, right): left <= value and value <= right.
between(x, left, right) == Leq(Num(left), x) /\ Leq(x, Num(right))

filtered_data(rows, minimum, rng) ==
    SelectSeq(rows, LAMBDA r :
        /\ Leq(Num(minimum), r.games_managed)
        /\ \A l \in Labels : between(r.metrics[l], rng[l][1], rng[l][2]))

(***************************************************************************)
(* The "Load Data" try block, lines 160-178                                *)
(***************************************************************************)
NoLoad(err, fmd) ==
    [raised |-> err, warnings |-> fmd.warnings, manager_data |-> <<>>, matches |-> <<>>,
     team_stats |-> <<>>, cleaned_data |-> <<>>]

\* Lines 168-170, once both fetches have returned: the merge, the column
\* selection and the rename.
LoadMerged(fmd, fts, mg) ==
    IF mg.raised # "" THEN NoLoad(mg.raised, fmd)
    ELSE [raised |-> "", warnings |-> fmd.warnings,
          manager_data |-> fmd.manager_data, matches |-> fmd.matches,
          team_stats |-> fts.team_stats,
          cleaned_data |-> MapRows(mg.rows, rename)]

\* Lines 165-170, once fetch_manager_data has returned.
LoadStats(fmd, fts) ==
    IF fts.raised # "" THEN NoLoad(fts.raised, fmd)
    ELSE LoadMerged(fmd, fts, merged_data(fmd.manager_data, fts.team_stats))

LoadFetched(stats, fmd) ==
    IF fmd.raised # "" THEN NoLoad(fmd.raised, fmd)
    ELSE LoadStats(fmd, fetch_team_stats(stats, fmd.matches, fmd.manager_data))

\* Lines 161-170 of the try block.
load(api, stats, comps, seasons) ==
    LoadFetched(stats, fetch_manager_data(api, comps, seasons))

\* Line 172, the last step of the try block that computes anything.
load_cut(r, minimum) ==
    IF r.raised # "" THEN r ELSE [r EXCEPT !.cleaned_data = games_cut(@, minimum)]

(***************************************************************************)
(* The data source                                                         *)
(***************************************************************************)
Teams == {"T1", "T2"}
Pairs == {<<c, s>> : c \in Range(CompIds), s \in Range(SeasonIds)}

\* The fixtures a match is drawn from: a plain one, its return leg, one with
\* a two-manager string against an empty one, and one with a missing manager.
MatchKinds ==
    << [home_team |-> "T1", home_managers |-> <<1>>, away_team |-> "T2", away_managers |-> <<2>>],
       [home_team |-> "T2", home_managers |-> <<2>>, away_team |-> "T1", away_managers |-> <<1>>],
       [home_team |-> "T1", home_managers |-> <<1, 2>>, away_team |-> "T2", away_managers |-> <<>>],
       [home_team |-> "T1", home_managers |-> <<1>>, away_team |-> "T2", away_managers |-> NaN] >>

MatchOf(id, kind) ==
    [match_id |-> id,
     home_team |-> MatchKinds[kind].home_team, home_managers |-> MatchKinds[kind].home_managers,
     away_team |-> MatchKinds[kind].away_team, away_managers |-> MatchKinds[kind].away_managers]

\* A world gives every match identifier its pair and fixture, or <<>> when
\* the match does not exist; identifiers are unique across the data source.
Worlds(pairs, kinds) == [1..MaxMatches -> {<<>>} \cup (pairs \X kinds)]

RowsOf(w, p) ==
    LET F[i \in 0..MaxMatches] ==
            IF i = 0 THEN <<>>
            ELSE IF w[i] # <<>> /\ w[i][1] = p THEN Append(F[i - 1], MatchOf(i, w[i][2]))
            ELSE F[i - 1]
    IN F[MaxMatches]

\* sb.matches for every pair: the request fails for the pairs of failing.
ApiOf(w, failing) == [p \in Pairs |-> [ok |-> p \notin failing, rows |-> RowsOf(w, p)]]

\* sb.team_match_stats for one match: the request fails, or it returns the
\* row of every team at a level (0: no row for that team).
StatsResponses ==
    { [ok |-> FALSE, level |-> [t \in Teams |-> 0]],
      [ok |-> TRUE, level |-> [t \in Teams |-> 1]],
      [ok |-> TRUE, level |-> [t \in Teams |-> IF t = "T1" THEN 2 ELSE 1]],
      [ok |-> TRUE, level |-> [t \in Teams |-> IF t = "T1" THEN 0 ELSE 2]] }

None == <<>>
Some(x) == <<x>>

IdleSession ==
    /\ data_loaded = FALSE
    /\ manager_data = None /\ matches = None /\ team_stats = None /\ cleaned_data = None

\* The sliders as created at lines 148-156, in hundredths.
DefaultRanges ==
    [l \in Labels |->
        CASE l = "Open Play xG" -> <<0, 300>>
          [] l = "Set Piece xG" -> <<0, 100>>
          [] l = "PPDA" -> <<1800, 0>>
          [] l = "Counter Attacking Shots" -> <<0, 300>>
          [] l = "Open Play Shot Distance" -> <<3000, 1000>>
          [] l = "Open Play Shot Distance Conceded" -> <<1000, 3000>>
          [] l = "Pressures in opposition half Ratio" -> <<0, 100>>
          [] l = "Possession Ratio" -> <<0, 100>>
          [] OTHER -> <<300, 0>>]

Min2(a, b) == IF a <= b THEN a ELSE b
Max2(a, b) == IF a <= b THEN b ELSE a

\* The same sliders with every pair of handles in ascending order.
AscendingRanges ==
    [l \in Labels |-> <<Min2(DefaultRanges[l][1], DefaultRanges[l][2]),
                        Max2(DefaultRanges[l][1], DefaultRanges[l][2])>>]

NoWidgets ==
    /\ min_matches = 5 /\ ranges = DefaultRanges
    /\ displayed = None /\ filtered = None /\ status = "start"

NoApi ==
    /\ api_matches = ApiOf([i \in 1..MaxMatches |-> <<>>], {})
    /\ api_stats = [i \in 1..MaxMatches |-> [ok |-> FALSE, level |-> [t \in Teams |-> 0]]]

(***************************************************************************)
(* SpecExtract: fetch_manager_data applied to every bounded data source    *)
(***************************************************************************)
InitExtract ==
    /\ \E w \in Worlds(Pairs, {1, 2, 4}), failing \in SUBSET Pairs :
          api_matches = ApiOf(w, failing)
    /\ api_stats = [i \in 1..MaxMatches |-> [ok |-> FALSE, level |-> [t \in Teams |-> 0]]]
    /\ IdleSession /\ NoWidgets
    /\ arg = None /\ ret = None

CallFetchManagerData ==
    /\ arg = None
    /\ \E comps \in SUBSET Range(CompIds), seasons \in SUBSET Range(SeasonIds) :
          /\ arg' = Some([competitions |-> comps, seasons |-> seasons])
          /\ ret' = Some(fetch_manager_data(api_matches, comps, seasons))
    /\ UNCHANGED <<api_matches, api_stats, session, min_matches, ranges,
                   displayed, filtered, status>>

NextExtract == CallFetchManagerData

SpecExtract == InitExtract /\ [][NextExtract]_vars

(***************************************************************************)
(* SpecStats: fetch_team_stats and the merge applied to what               *)
(* fetch_manager_data returns for every bounded data source                *)
(***************************************************************************)
StatsPairs == {<<38, 317>>, <<38, 282>>, <<47, 317>>}

InitStats ==
    /\ \E w \in Worlds(StatsPairs, 1..Len(MatchKinds)) : api_matches = ApiOf(w, {})
    /\ api_stats \in [1..MaxMatches -> StatsResponses]
    /\ IdleSession /\ NoWidgets
    /\ LET fmd == fetch_manager_data(api_matches, Range(CompIds), Range(SeasonIds))
       IN fmd.raised = "" /\ arg = Some(fmd)
    /\ ret = None

CallFetchTeamStats ==
    /\ ret = None
    /\ ret' = <<fetch_team_stats(api_stats, arg[1].matches, arg[1].manager_data)>>
    /\ UNCHANGED <<api_matches, api_stats, session, min_matches, ranges,
                   displayed, filtered, status, arg>>

CallMerge ==
    /\ Len(ret) = 1 /\ ret[1].raised = ""
    /\ ret' = Append(ret, merged_data(arg[1].manager_data, ret[1].team_stats))
    /\ UNCHANGED <<api_matches, api_stats, session, min_matches, ranges,
                   displayed, filtered, status, arg>>

NextStats == CallFetchTeamStats \/ CallMerge

SpecStats == InitStats /\ [][NextStats]_vars

(***************************************************************************)
(* SpecFilter: the display clean-up's filter applied to bounded tables     *)
(***************************************************************************)
\* A value inside every ascending slider range.
BaseMetrics == [l \in Labels |-> Num(AscendingRanges[l][2])]

\* The values of the fixture: -1, 0, 1.5, 3, 4, then one third and missing.
TestValues == <<Num(-100), Num(0), Num(150), Num(300), Num(400), Frac(100, 3), NaNNum>>

FilterRow(gm, l, v) ==
    [team_name |-> "T1", manager |-> <<1>>, games_managed |-> gm,
     competition |-> COMPETITIONS[38], metrics |-> [BaseMetrics EXCEPT ![l] = v]]

FilterTables ==
    {<<FilterRow(gm, l, TestValues[i])>> :
        gm \in {NaNNum} \cup {Num(n) : n \in 1..MaxMin}, l \in Labels, i \in 1..Len(TestValues)}
    \cup {[i \in 1..Len(TestValues) |-> FilterRow(Num(MaxMin), l, TestValues[i])] : l \in Labels}

EndPoints == {0, 150, 300}

\* The sliders as created, and the ascending ones with one metric's handles
\* moved to any two end points, in either order.
FilterRanges ==
    {DefaultRanges}
    \cup {[AscendingRanges EXCEPT ![l] = <<a, b>>] : l \in Labels, a \in EndPoints, b \in EndPoints}

InitFilter ==
    /\ NoApi /\ IdleSession /\ NoWidgets
    /\ \E t \in FilterTables, m \in 1..MaxMin, rng \in FilterRanges :
          arg = Some([rows |-> t, minimum |-> m, ranges |-> rng])
    /\ ret = None

ApplyFilter ==
    /\ ret = None
    /\ ret' = Some(filtered_data(arg[1].rows, arg[1].minimum, arg[1].ranges))
    /\ UNCHANGED <<api_matches, api_stats, session, min_matches, ranges,
                   displayed, filtered, status, arg>>

NextFilter == ApplyFilter

SpecFilter == InitFilter /\ [][NextFilter]_vars

(***************************************************************************)
(* Spec: the script, run once per user interaction, with credentials       *)
(* entered                                                                 *)
(***************************************************************************)
SessionPairs == {<<38, 317>>, <<38, 282>>, <<47, 317>>}
SessionKinds == {1, 3, 4}

\* In a session the statistics service answers every request alike: it fails,
\* or it returns the rows of both teams.
SessionStats == {s \in StatsResponses : ~s.ok \/ s.level["T1"] = 2}
SessionComps == {{38}, {38, 47}}
SessionSeasons == {{317}, {317, 282}}

NarrowRanges == [AscendingRanges EXCEPT !["Open Play xG"] = <<150, 300>>]
RangeChoices == {DefaultRanges, NarrowRanges}

Init ==
    /\ \E w \in Worlds(SessionPairs, SessionKinds), failing \in {{}, {<<38, 317>>}} :
          api_matches = ApiOf(w, failing)
    /\ \E s \in SessionStats : api_stats = [i \in 1..MaxMatches |-> s]
    /\ IdleSession /\ NoWidgets
    /\ arg = None /\ ret = None

\* Lines 184-216: the tables shown from the session's cleaned_data.
Show(cd, m, rng) ==
    /\ displayed' = Some(display_data(cd))
    /\ filtered' = Some(filtered_data(displayed'[1], m, rng))
    /\ status' = IF filtered'[1] = <<>> THEN "no_managers" ELSE "selected"

\* A run without the button pressed and without loaded data (line 158).
RunIdle ==
    /\ ~data_loaded
    /\ \E m \in 1..MaxMin, rng \in RangeChoices : min_matches' = m /\ ranges' = rng
    /\ displayed' = None /\ filtered' = None /\ status' = "idle"
    /\ UNCHANGED <<api_matches, api_stats, session, arg, ret>>

\* A variant that stores the fetched tables before the outcome is known.
LoadOutcome_store_first(r, m, rng) ==
    /\ manager_data' = Some(r.manager_data)
    /\ matches' = Some(r.matches)
    /\ IF r.raised # ""
       THEN /\ status' = r.raised
            /\ displayed' = None /\ filtered' = None
            /\ UNCHANGED <<data_loaded, team_stats, cleaned_data>>
       ELSE /\ team_stats' = Some(r.team_stats)
            /\ cleaned_data' = Some(r.cleaned_data)
            /\ data_loaded' = TRUE
            /\ Show(cleaned_data'[1], m, rng)

\* The end of the try block (lines 174-181) and what follows it.
LoadOutcome(r, m, rng) ==
    IF r.raised # ""
    THEN /\ status' = r.raised
         /\ displayed' = None /\ filtered' = None
         /\ UNCHANGED session
    ELSE /\ manager_data' = Some(r.manager_data)
         /\ matches' = Some(r.matches)
         /\ team_stats' = Some(r.team_stats)
         /\ cleaned_data' = Some(r.cleaned_data)
         /\ data_loaded' = TRUE
         /\ Show(cleaned_data'[1], m, rng)

\* A run with the button pressed and no loaded data (lines 159-216).
LoadRun(r) ==
    \E m \in 1..MaxMin, rng \in RangeChoices :
        /\ min_matches' = m /\ ranges' = rng
        /\ LoadOutcome(load_cut(r, m), m, rng)

LoadData ==
    /\ ~data_loaded
    /\ \E comps \in SessionComps, seasons \in SessionSeasons :
          LoadRun(load(api_matches, api_stats, comps, seasons))
    /\ UNCHANGED <<api_matches, api_stats, arg, ret>>

\* A run once data is loaded: no fetch, the tables are rebuilt (line 158).
Rerun ==
    /\ data_loaded
    /\ \E m \in 1..MaxMin, rng \in RangeChoices :
          /\ min_matches' = m /\ ranges' = rng
          /\ Show(cleaned_data[1], m, rng)
    /\ UNCHANGED <<api_matches, api_stats, session, arg, ret>>

Next == RunIdle \/ LoadData \/ Rerun

Spec == Init /\ [][Next]_vars

(***************************************************************************)
(* Properties. They are stated on the data alone: none of them uses the    *)
(* operators that model the pipeline.                                      *)
(***************************************************************************)
IsSubstring(pat, hay) ==
    \E i \in 1..(Len(hay) + 1), j \in 0..Len(hay) : j >= i - 1 /\ SubSeq(hay, i, j) = pat

\* The (team, manager-substring) predicate of a match row.
Managed(m, team, mgr) ==
    \/ (m.home_team = team /\ m.home_managers # NaN /\ IsSubstring(mgr, m.home_managers))
    \/ (m.away_team = team /\ m.away_managers # NaN /\ IsSubstring(mgr, m.away_managers))

ManagedIds(ms, team, mgr) == {ms[i].match_id : i \in {j \in DOMAIN ms : Managed(ms[j], team, mgr)}}

\* The matched matches whose statistics request returns a row of the team.
CollectedIds(ms, team, mgr) ==
    {id \in ManagedIds(ms, team, mgr) : api_stats[id].ok /\ api_stats[id].level[team] # 0}

RECURSIVE SumLevels(_, _)
SumLevels(ids, team) ==
    IF ids = {} THEN 0
    ELSE LET id == CHOOSE x \in ids : TRUE
         IN api_stats[id].level[team] + SumLevels(ids \ {id}, team)

RosterKey(r) == <<r.team_name, r.manager, r.competition, r.season>>

\* The pairs of a selection, and the ones among them that the try block
\* passes over with a warning.
SelectedPairs(a) == {<<c, s>> : c \in a.competitions, s \in a.seasons}
FailingPairs(a) == {p \in SelectedPairs(a) : ~api_matches[p].ok}

Returned == ret # None /\ ret[1].raised = ""

----------------------------------------------------------------------------
\* C6: the roster fetch_manager_data returns holds no two rows with the same
\* (team_name, manager, competition, season), for every data source and
\* every selection of competitions and seasons.
C6_NoDuplicateAssignments ==
    Returned =>
        \A i, j \in 1..Len(ret[1].manager_data) :
            i # j => RosterKey(ret[1].manager_data[i]) # RosterKey(ret[1].manager_data[j])

\* A roster built from two pairs that holds the same team and manager twice,
\* once for each pair.
C6_Witness ==
    /\ Returned
    /\ \E i, j \in 1..Len(ret[1].manager_data) :
          /\ i # j
          /\ ret[1].manager_data[i].team_name = ret[1].manager_data[j].team_name
          /\ ret[1].manager_data[i].manager = ret[1].manager_data[j].manager

\* C4: whatever subset of the selected pairs fails, fetch_manager_data
\* returns without raising, warns about exactly the failing pairs and returns
\* the matches and the assignments of exactly the pairs that succeeded.
C4_FailedPairNeverFatal ==
    (/\ arg # None
     /\ SelectedPairs(arg[1]) # {}
     /\ \A p \in SelectedPairs(arg[1]) : api_matches[p].ok => api_matches[p].rows # <<>>)
    => /\ ret[1].raised = ""
       /\ Range(ret[1].warnings) = FailingPairs(arg[1])
       /\ {m.match_id : m \in Range(ret[1].matches)}
            = UNION {{m.match_id : m \in Range(api_matches[p].rows)} :
                        p \in SelectedPairs(arg[1]) \ FailingPairs(arg[1])}
       /\ {<<COMPETITIONS[p[1]], SEASONS[p[2]]>> : p \in SelectedPairs(arg[1]) \ FailingPairs(arg[1])}
            = {<<r.competition, r.season>> : r \in Range(ret[1].manager_data)}

----------------------------------------------------------------------------
\* C2: every row fetch_team_stats produces carries, as games_managed, the
\* number of distinct match identifiers of the whole supplied match set (all
\* competitions and seasons) whose home or away side is the row's team with
\* a manager field containing the row's manager, whatever the number of
\* statistics requests that failed.
C2_GamesManaged ==
    (Len(ret) >= 1 /\ ret[1].raised = "") =>
        \A i \in 1..Len(ret[1].team_stats) :
            LET row == ret[1].team_stats[i]
            IN row.games_managed
                 = <<Cardinality(ManagedIds(arg[1].matches, row.team_name, row.manager)), 1>>

\* A row counting two matches of two different pairs, one of them through a
\* two-manager string, with the statistics request of one of them failing.
C2_Witness ==
    /\ Len(ret) >= 1 /\ ret[1].raised = ""
    /\ \E i \in 1..Len(ret[1].team_stats) :
          LET row == ret[1].team_stats[i]
              ms == arg[1].matches
          IN /\ row.games_managed = <<2, 1>>
             /\ \E a, b \in 1..Len(ms) :
                   /\ Managed(ms[a], row.team_name, row.manager)
                   /\ Managed(ms[b], row.team_name, row.manager)
                   /\ <<ms[a].competition, ms[a].season>> # <<ms[b].competition, ms[b].season>>
                   /\ ms[a].home_managers # row.manager
                   /\ ~api_stats[ms[b].match_id].ok

\* C5: every row of fetch_team_stats holds, for every numeric field, the
\* arithmetic mean of the field over the rows collected for the assignment:
\* one row of its team per matched match whose request succeeded and returned
\* such a row. An assignment is in the output exactly when a row was
\* collected for it.
C5_ArithmeticMean ==
    (Len(ret) >= 1 /\ ret[1].raised = "") =>
        /\ \A i \in 1..Len(ret[1].team_stats) :
              LET row == ret[1].team_stats[i]
                  ids == CollectedIds(arg[1].matches, row.team_name, row.manager)
              IN /\ ids # {}
                 /\ \A k \in Range(MetricKeys) :
                       /\ row.stats[k][2] > 0
                       /\ row.stats[k][1] * Cardinality(ids)
                            = row.stats[k][2] * MetricUnit[k] * SumLevels(ids, row.team_name)
        /\ \A j \in 1..Len(arg[1].manager_data) :
              LET r == arg[1].manager_data[j]
              IN (CollectedIds(arg[1].matches, r.team_name, r.manager) # {})
                   <=> (\E i \in 1..Len(ret[1].team_stats) :
                           RosterKey(ret[1].team_stats[i]) = RosterKey(r))

\* An output row averaged over two collected rows of different levels, next
\* to an assignment that is left out because nothing was collected for it.
C5_Witness ==
    /\ Len(ret) >= 1 /\ ret[1].raised = ""
    /\ \E i \in 1..Len(ret[1].team_stats) :
          LET row == ret[1].team_stats[i]
              ids == CollectedIds(arg[1].matches, row.team_name, row.manager)
          IN /\ Cardinality(ids) = 2
             /\ \E a, b \in ids : api_stats[a].level[row.team_name] # api_stats[b].level[row.team_name]
    /\ Len(ret[1].team_stats) < Len(arg[1].manager_data)

\* C3: the merge keeps every roster row exactly once and in order, with
\* missing games_managed and metrics where no aggregate matched, and does not
\* fail, also when fetch_team_stats returned no aggregate at all.
C3_MergeNonLossy ==
    Len(ret) = 2 =>
        /\ ret[2].raised = ""
        /\ Len(ret[2].rows) = Len(arg[1].manager_data)
        /\ \A i \in 1..Len(ret[2].rows) :
              /\ RosterKey(ret[2].rows[i]) = RosterKey(arg[1].manager_data[i])
              /\ (\A j \in 1..Len(ret[1].team_stats) :
                     RosterKey(ret[1].team_stats[j]) # RosterKey(arg[1].manager_data[i]))
                  => /\ ret[2].rows[i].games_managed = NaNNum
                     /\ \A k \in Range(MetricKeys) : ret[2].rows[i].stats[k] = NaNNum

----------------------------------------------------------------------------
\* A number, as a fraction, is at least the integer n / at most the integer n.
AtLeast(x, n) == x[2] > 0 /\ x[1] >= n * x[2]
AtMost(x, n) == x[2] > 0 /\ x[1] <= n * x[2]

\* games_managed >= minimum and low <= value <= high for every metric.
Qualifies(r, minimum, rng) ==
    /\ AtLeast(r.games_managed, minimum)
    /\ \A l \in Labels : AtLeast(r.metrics[l], rng[l][1]) /\ AtMost(r.metrics[l], rng[l][2])

\* The same with the two endpoints of every metric taken in ascending order.
QualifiesEitherWay(r, minimum, rng) ==
    /\ AtLeast(r.games_managed, minimum)
    /\ \A l \in Labels :
          /\ AtLeast(r.metrics[l], Min2(rng[l][1], rng[l][2]))
          /\ AtMost(r.metrics[l], Max2(rng[l][1], rng[l][2]))

\* The sequence sub holds exactly the rows of rows that satisfy keep.
ExactlyRows(sub, rows, keep(_)) ==
    /\ Range(sub) = {rows[i] : i \in {j \in DOMAIN rows : keep(rows[j])}}
    /\ Len(sub) = Cardinality({j \in DOMAIN rows : keep(rows[j])})

\* C1: the range filter keeps exactly the rows with games_managed >= the
\* minimum and, for each of the nine metrics, low <= value <= high with both
\* endpoints included; a row with a missing metric is not kept.
C1_RangeFilter ==
    ret # None =>
        ExactlyRows(ret[1], arg[1].rows,
                    LAMBDA r : Qualifies(r, arg[1].minimum, arg[1].ranges))

\* The fixture of the specification: bounds [0, 3] on Open Play xG over the
\* values -1, 0, 1.5, 3, 4 (and 1/3 and a missing value) keep 0, 1.5, 3 (and 1/3).
C1_Witness ==
    /\ ret # None
    /\ arg[1].ranges["Open Play xG"] = <<0, 300>>
    /\ Len(arg[1].rows) = Len(TestValues)
    /\ {r.metrics["Open Play xG"] : r \in Range(ret[1])} = {<<0, 1>>, <<150, 1>>, <<300, 1>>, <<100, 3>>}

\* C8: the range bound is direction-agnostic: a row is kept iff every metric
\* lies between the smaller and the larger endpoint, whichever comes first.
C8_DirectionAgnostic ==
    ret # None =>
        ExactlyRows(ret[1], arg[1].rows,
                    LAMBDA r : QualifiesEitherWay(r, arg[1].minimum, arg[1].ranges))

----------------------------------------------------------------------------
\* C7: in the displayed table every (manager, team_name, competition) occurs
\* at most once, the row shown is the first one with that key among the rows
\* of the session's cleaned_data (those that passed the games_managed cut),
\* and no row shown has a missing or empty manager.
C7_OneRowPerKey ==
    displayed # None =>
        LET d == displayed[1]
            cd == cleaned_data[1]
            same(x, y) == /\ x.manager = y.manager /\ x.team_name = y.team_name
                          /\ x.competition = y.competition
        IN /\ \A i, j \in 1..Len(d) : i # j => ~same(d[i], d[j])
           /\ \A i \in 1..Len(d) :
                 /\ d[i].manager # NaN /\ d[i].manager # <<>>
                 /\ \E j \in 1..Len(cd) :
                       /\ same(cd[j], d[i])
                       /\ \A k \in 1..(j - 1) : ~same(cd[k], d[i])
                       /\ d[i].games_managed = cd[j].games_managed
                       /\ d[i].metrics = cd[j].metrics
           /\ \A j \in 1..Len(cd) :
                 (cd[j].manager # NaN /\ cd[j].manager # <<>>)
                 => \E i \in 1..Len(d) : same(cd[j], d[i])

\* A displayed table for which cleaned_data held the same manager, team and
\* competition in two seasons, and a row with an empty manager.
C7_Witness ==
    /\ displayed # None
    /\ \E i, j \in 1..Len(cleaned_data[1]) :
          /\ i # j
          /\ cleaned_data[1][i].manager = cleaned_data[1][j].manager
          /\ cleaned_data[1][i].team_name = cleaned_data[1][j].team_name
          /\ cleaned_data[1][i].competition = cleaned_data[1][j].competition
          /\ cleaned_data[1][i].season # cleaned_data[1][j].season
    /\ \E i \in 1..Len(cleaned_data[1]) : cleaned_data[1][i].manager = <<>>
    /\ Len(displayed[1]) >= 1

ErrorKinds == {"ValueError", "TypeError", "KeyError"}

\* C9: a run whose load raises reports the error and leaves the session
\* state as it was, with data_loaded False; data_loaded becomes True only in
\* a run that completed the fetches, the merge and the cut, and the five
\* session fields are then set together.
C9_LoadIsAllOrNothing ==
    [][/\ (status' \in ErrorKinds) => (UNCHANGED session /\ ~data_loaded')
       /\ (session' # session) =>
             /\ ~data_loaded /\ data_loaded' /\ status' \notin ErrorKinds
             /\ manager_data' # None /\ matches' # None
             /\ team_stats' # None /\ team_stats'[1] # <<>>
             /\ cleaned_data' # None
             /\ \A i \in 1..Len(cleaned_data'[1]) :
                   /\ AtLeast(cleaned_data'[1][i].games_managed, min_matches')
                   /\ \E j \in 1..Len(manager_data'[1]) :
                         RosterKey(manager_data'[1][j]) = RosterKey(cleaned_data'[1][i])
       /\ (~data_loaded') =>
             (manager_data' = None /\ matches' = None /\ team_stats' = None
              /\ cleaned_data' = None)]_vars

\* A run halted by the merge's KeyError, with nothing stored.
C9_Witness ==
    /\ status = "KeyError" /\ ~data_loaded
    /\ manager_data = None /\ matches = None /\ team_stats = None /\ cleaned_data = None

\* The merged table rebuilt from the session's roster and aggregates, after
\* the removal of unnamed managers and the de-duplication (no cut applied).
WholeMerged ==
    LET md == manager_data[1]
        ts == team_stats[1]
        agg(l) == {j \in 1..Len(ts) : RosterKey(ts[j]) = RosterKey(l)}
        row(l) == [team_name |-> l.team_name, manager |-> l.manager,
                   competition |-> l.competition,
                   games_managed |-> IF agg(l) = {} THEN NaNNum
                                     ELSE ts[CHOOSE j \in agg(l) : TRUE].games_managed,
                   metrics |-> [lb \in Labels |->
                                  IF agg(l) = {} THEN NaNNum
                                  ELSE ts[CHOOSE j \in agg(l) : TRUE].stats[
                                         CHOOSE k \in Range(MetricKeys) : METRICS[k] = lb]]]
        named == {i \in 1..Len(md) : md[i].manager # NaN /\ md[i].manager # <<>>}
        first == {i \in named :
                    \A k \in named : k < i =>
                        <<md[k].manager, md[k].team_name, md[k].competition>>
                          # <<md[i].manager, md[i].team_name, md[i].competition>>}
    IN {row(md[i]) : i \in first}

\* C10: once data is loaded, the selected-managers table of every run holds
\* exactly the rows of the merged table (unnamed managers removed,
\* de-duplicated) with games_managed >= the minimum set in that run and
\* metrics within that run's bounds, also after the minimum was lowered.
C10_MinimumFollowsSlider ==
    (data_loaded /\ filtered # None) =>
        Range(filtered[1]) = {r \in WholeMerged : Qualifies(r, min_matches, ranges)}

====
